---- MODULE Spec2Model ----
(***************************************************************************)
(* Model of SQLiteMCPClient (src/sqlite_client/src/client_sqlite.py): the  *)
(* retrying tool invoker, the response normalizer, the insight-append      *)
(* workflow with its local mirror, and the memo reader.                    *)
(*                                                                         *)
(* The client runs on one asyncio event loop.  Every action below is the   *)
(* code between two suspension points (await) of one coroutine, so actions *)
(* interleave exactly where the event loop may switch coroutines.          *)
(*                                                                         *)
(* The caller runs one operation at a time; background tasks run between  *)
(* its steps.  Spec is the whole client; SpecInsights and SpecInvoker are  *)
(* the same client with the caller restricted to the insight workflow and  *)
(* to retried tool calls, which share no state beyond the session.         *)
(*                                                                         *)
(* Python strings are modelled as sequences of tokens (string pieces):     *)
(* concatenation is \o, a text t taken verbatim is <<t>>.                  *)
(*                                                                         *)
(* The module-level helpers validate_query, analyze_query_results and      *)
(* format_query_results (query_handler.py, insight_gen.py) are functions   *)
(* of their arguments; SpecValidate, SpecAnalyze and SpecFormat apply each *)
(* to every argument of a bounded set.                                     *)
(***************************************************************************)
EXTENDS Integers, Sequences, FiniteSets, TLC

VARIABLES
    session,        \* self.session: "None", "live" or "closed" (object kept, streams closed)
    tools_cache,    \* self.tools_cache: "None" or "cached"
    insights,       \* self._insights, the local mirror
    tasks,          \* background tasks created by asyncio.create_task
    fg,             \* the caller's coroutine: operation in progress and its locals
    result,         \* what the last finished operation gave its caller
    submitted,      \* history: insight texts in the order append_insight accepted them
    remoteOk,       \* history: some remote call or read has succeeded
    connects,       \* history: number of connect_to_server calls
    listToolsCalls  \* history: number of session.list_tools() calls

vars == <<session, tools_cache, insights, tasks, fg, result, submitted,
          remoteOk, connects, listToolsCalls>>

----------------------------------------------------------------------------
(* Bounds *)

MaxInsights == 2        \* append_insight calls accepted in one run
MaxRetriesArg == 2      \* largest max_retries argument tried
MaxConnects == 2        \* connect_to_server calls in one run

(* Program constants *)

TIMEOUT_SECONDS == 90
RETRY_ATTEMPTS == 5
APPEND_INSIGHT_TIMEOUT == 60
RETRY_DELAY == 2
\* faulty variant: the direct calls wait as long as the invoker would for append_insight
DIRECT_TIMEOUT_AsInvoker == APPEND_INSIGHT_TIMEOUT

\* timeout=5 of the direct wait_for calls (append_insight, its task, the memo read)
DIRECT_TIMEOUT == 5

----------------------------------------------------------------------------
(* Inputs *)

InsightTexts == {<<"a">>, <<"b">>}
ToolNames == {"read_query", "append_insight"}
ErrorTexts == {"boom", "reset"}

\* Texts a response can carry, by how json.loads and ast.literal_eval treat them
Texts == {"OK", "[1, 2]", "true", "'x'", "{[1]: 2}", "1 +", "[{\"name\": \"t\"}]"}

\* Response shapes, by the attributes the client probes with hasattr/isinstance
TextShapes == {"list_text", "direct_text", "plain"}
BareShapes == {"list_notext", "list_empty", "content_other", "other"}

Responses ==
    [shape : TextShapes, text : Texts] \cup [shape : BareShapes, text : {""}]

ToStr(n) ==
    CASE n = 0 -> "0" [] n = 1 -> "1" [] n = 2 -> "2" [] n = 3 -> "3"
      [] n = 4 -> "4" [] n = 5 -> "5" [] n = 60 -> "60" [] n = 90 -> "90"
      [] OTHER -> "n"

Val(ty, s) == [ty |-> ty, s |-> s]

NoVal == Val("none", <<>>)

----------------------------------------------------------------------------
(* Initial state: SQLiteMCPClient.__init__ *)

IdleFg ==
    [op |-> "none", pc |-> "done", tool |-> "", insight |-> <<>>,
     blocking |-> FALSE, max_retries |-> 0, retries |-> 0, timeout |-> 0,
     calls |-> 0, fails |-> 0, timeouts |-> 0, sleeps |-> 0,
     last_error |-> NoVal, last |-> "none", err |-> "",
     resp |-> [shape |-> "other", text |-> ""]]

\* faulty variant: the constructor leaves a tool cache behind
Init_CacheSet ==
    /\ session = "None"
    /\ tools_cache = "cached"
    /\ insights = <<>>
    /\ tasks = <<>>
    /\ fg = IdleFg
    /\ result = [kind |-> "none", val |-> NoVal]
    /\ submitted = <<>>
    /\ remoteOk = FALSE
    /\ connects = 0
    /\ listToolsCalls = 0

Init ==
    /\ session = "None"
    /\ tools_cache = "None"
    /\ insights = <<>>
    /\ tasks = <<>>
    /\ fg = IdleFg
    /\ result = [kind |-> "none", val |-> NoVal]
    /\ submitted = <<>>
    /\ remoteOk = FALSE
    /\ connects = 0
    /\ listToolsCalls = 0

Return(v) == [kind |-> "return", val |-> v]
Raise(e) == [kind |-> "raise", val |-> e]

NotConnectedError == Val("RuntimeError", <<"Not connected to server">>)

\* faulty variant: the check never fires
NotConnected_Never(s) == FALSE

\* `if not self.session`
NotConnected(s) == s = "None"

\* history: how the awaited call of f ended
Ended(f, o) ==
    [f EXCEPT !.resp = o.resp, !.last = o.kind, !.err = o.err,
              !.fails = f.fails + (IF o.kind = "ok" THEN 0 ELSE 1),
              !.timeouts = f.timeouts + (IF o.kind = "timeout" THEN 1 ELSE 0)]

StartOp(op) ==
    [IdleFg EXCEPT !.op = op, !.pc = "run"]

Finish(f) == [f EXCEPT !.pc = "done"]

----------------------------------------------------------------------------
(* connect_to_server: one action per await *)

\* cleanup(): exit_stack.aclose() closes every entered context; self.session
\* keeps whatever object it referenced
Cleanup(s) == IF s = "None" THEN "None" ELSE "closed"

ConnectStart ==
    /\ fg.pc = "done"
    /\ connects < MaxConnects
    /\ connects' = connects + 1
    /\ fg' = [StartOp("connect") EXCEPT !.pc = "stdio"]
    /\ result' = [kind |-> "none", val |-> NoVal]
    /\ UNCHANGED <<session, tools_cache, insights, tasks, submitted, remoteOk,
                   listToolsCalls>>

ConnectFail ==
    /\ fg.op = "connect"
    /\ fg.pc \in {"stdio", "session", "init", "list_tools"}
    /\ session' = Cleanup(session)
    /\ listToolsCalls' = IF fg.pc = "list_tools" THEN listToolsCalls + 1
                         ELSE listToolsCalls
    /\ fg' = Finish(fg)
    /\ result' = Raise(Val("ConnectError", <<fg.pc>>))
    /\ UNCHANGED <<tools_cache, insights, tasks, submitted, remoteOk, connects>>

ConnectStdio ==
    /\ fg.op = "connect" /\ fg.pc = "stdio"
    /\ fg' = [fg EXCEPT !.pc = "session"]
    /\ UNCHANGED <<session, tools_cache, insights, tasks, result, submitted,
                   remoteOk, connects, listToolsCalls>>

ConnectSession ==
    /\ fg.op = "connect" /\ fg.pc = "session"
    /\ session' = "live"
    /\ fg' = [fg EXCEPT !.pc = "init"]
    /\ UNCHANGED <<tools_cache, insights, tasks, result, submitted, remoteOk,
                   connects, listToolsCalls>>

ConnectInit ==
    /\ fg.op = "connect" /\ fg.pc = "init"
    /\ fg' = [fg EXCEPT !.pc = "list_tools"]
    /\ UNCHANGED <<session, tools_cache, insights, tasks, result, submitted,
                   remoteOk, connects, listToolsCalls>>

\* faulty variant: the tool list is asked for twice
ConnectListTools_Twice ==
    /\ fg.op = "connect" /\ fg.pc = "list_tools"
    /\ listToolsCalls' = listToolsCalls + 2
    /\ tools_cache' = "cached"
    /\ fg' = Finish(fg)
    /\ result' = Return(Val("bool", <<"True">>))
    /\ UNCHANGED <<session, insights, tasks, submitted, remoteOk, connects>>

ConnectListTools ==
    /\ fg.op = "connect" /\ fg.pc = "list_tools"
    /\ listToolsCalls' = listToolsCalls + 1
    /\ tools_cache' = "cached"
    /\ fg' = Finish(fg)
    /\ result' = Return(Val("bool", <<"True">>))
    /\ UNCHANGED <<session, insights, tasks, submitted, remoteOk, connects>>

----------------------------------------------------------------------------
(* The transport: what one awaited session call can come back with.  A     *)
(* closed session cannot deliver a reply.                                  *)

Outcomes(s) ==
    [kind : {"timeout"}, resp : {IdleFg.resp}, err : {""}]
      \cup [kind : {"error"}, resp : {IdleFg.resp}, err : ErrorTexts]
      \cup (IF s = "live"
            THEN [kind : {"ok"}, resp : Responses, err : {""}]
            ELSE {})

----------------------------------------------------------------------------
(* parse_response *)

\* hasattr(response, "content")
HasContent(r) == r.shape # "plain" /\ r.shape # "other"

\* faulty variant: a content object with a text of its own is not unwrapped
ExtractContent_NoDirect(r) ==
    CASE r.shape = "list_text" -> [str |-> TRUE, s |-> r.text]
      [] r.shape = "list_notext" -> [str |-> FALSE, s |-> "content:list"]
      [] r.shape = "list_empty" -> [str |-> FALSE, s |-> "content:[]"]
      [] r.shape = "direct_text" -> [str |-> FALSE, s |-> "content:object"]
      [] r.shape = "content_other" -> [str |-> FALSE, s |-> "content:object"]
      [] r.shape = "plain" -> [str |-> TRUE, s |-> r.text]
      [] OTHER -> [str |-> FALSE, s |-> "response:object"]

\* lines 501-511: the value handed to the parsers; str is TRUE for a Python str
ExtractContent(r) ==
    CASE r.shape = "list_text" -> [str |-> TRUE, s |-> r.text]
      [] r.shape = "list_notext" -> [str |-> FALSE, s |-> "content:list"]
      [] r.shape = "list_empty" -> [str |-> FALSE, s |-> "content:[]"]
      [] r.shape = "direct_text" -> [str |-> TRUE, s |-> r.text]
      [] r.shape = "content_other" -> [str |-> FALSE, s |-> "content:object"]
      [] r.shape = "plain" -> [str |-> TRUE, s |-> r.text]
      [] OTHER -> [str |-> FALSE, s |-> "response:object"]

\* json.loads: the value, or the exception it raises
JsonLoads(c) ==
    IF ~c.str THEN [ok |-> FALSE, v |-> "TypeError"]
    ELSE CASE c.s = "[1, 2]" -> [ok |-> TRUE, v |-> "list:1,2"]
           [] c.s = "[{\"name\": \"t\"}]" -> [ok |-> TRUE, v |-> "list:{name:t}"]
           [] c.s = "true" -> [ok |-> TRUE, v |-> "bool:True"]
           [] OTHER -> [ok |-> FALSE, v |-> "JSONDecodeError"]

\* ast.literal_eval: the value, or the exception it raises
LiteralEval(c) ==
    IF ~c.str THEN [ok |-> FALSE, v |-> "ValueError"]
    ELSE CASE c.s = "[1, 2]" -> [ok |-> TRUE, v |-> "list:1,2"]
           [] c.s = "[{\"name\": \"t\"}]" -> [ok |-> TRUE, v |-> "list:{name:t}"]
           [] c.s = "'x'" -> [ok |-> TRUE, v |-> "str:x"]
           [] c.s = "{[1]: 2}" -> [ok |-> FALSE, v |-> "TypeError"]
           [] c.s = "1 +" -> [ok |-> FALSE, v |-> "SyntaxError"]
           [] OTHER -> [ok |-> FALSE, v |-> "ValueError"]

\* the value returned as is (line 523)
AsIs(c) == IF c.str THEN Val("str", <<c.s>>) ELSE Val("obj", <<c.s>>)

\* faulty variant: the literal parse is left out
parse_response_NoLiteral(r) ==
    LET content == ExtractContent(r)
        j == JsonLoads(content)
    IN  IF j.ok THEN Val("parsed", <<j.v>>) ELSE AsIs(content)

parse_response(r) ==
    LET content == ExtractContent(r)
        j == JsonLoads(content)
        l == LiteralEval(content)
    IN  IF j.ok THEN Val("parsed", <<j.v>>)
        ELSE IF l.ok THEN Val("parsed", <<l.v>>)
        ELSE IF l.v \in {"SyntaxError", "ValueError"} THEN AsIs(content)
        ELSE Val("None", <<>>)

----------------------------------------------------------------------------
(* append_insight and its background task *)

NonBlockingMessage == Val("message", <<"Insight submission started (non-blocking)">>)
SoftTimeoutMessage ==
    Val("message", <<"Insight submission timed out, but may have succeeded">>)
ErrorMessage(err) == Val("message", <<"Error: ", err>>)

\* faulty variant: the new record is put in front
MirrorAppend_Prepend(ins, t) == <<t>> \o ins

\* faulty variant: the record is not stored
MirrorAppend_Drop(ins, t) == ins

\* faulty variant: the record is stored twice
MirrorAppend_Twice(ins, t) == Append(Append(ins, t), t)

\* line 229: self._insights.append(insight)
MirrorAppend(ins, t) == Append(ins, t)

\* faulty variant: the task's coroutine runs to its first await as soon as it is created
NewTask_Eager(t) == [insight |-> t, st |-> "calling", calls |-> 1,
                     timeout |-> DIRECT_TIMEOUT]

\* line 233: asyncio.create_task only schedules the coroutine
NewTask(t) == [insight |-> t, st |-> "scheduled", calls |-> 0, timeout |-> 0]

\* faulty variant: the message is the text of any shape that carries one
BlockingMessage_AnyText(r) ==
    IF r.shape \in TextShapes THEN Val("message", <<r.text>>)
    ELSE Val("message", <<"Insight added to memo">>)

\* lines 244-248: the message of a successful blocking append
BlockingMessage(r) ==
    IF r.shape = "list_text" THEN Val("message", <<r.text>>)
    ELSE Val("message", <<"Insight added to memo">>)

\* faulty variant: only the timeout is caught, any other error propagates
AppendFailureResult_Reraise(o) ==
    IF o.kind = "timeout" THEN Return(SoftTimeoutMessage)
    ELSE Raise(Val("TransportError", <<o.err>>))

\* lines 249-254: the two except branches
AppendFailureResult(o) ==
    IF o.kind = "timeout" THEN Return(SoftTimeoutMessage)
    ELSE Return(ErrorMessage(o.err))

\* lines 223-241: up to the return (non-blocking) or the awaited call (blocking)
AppendInsightCall(t, blocking) ==
    /\ fg.pc = "done"
    /\ IF NotConnected(session)
       THEN /\ fg' = Finish([StartOp("append_insight") EXCEPT
                                !.insight = t, !.blocking = blocking])
            /\ result' = Raise(NotConnectedError)
            /\ UNCHANGED <<insights, tasks, submitted>>
       ELSE /\ Len(submitted) < MaxInsights
            /\ insights' = MirrorAppend(insights, t)
            /\ submitted' = Append(submitted, t)
            /\ IF ~blocking
               THEN /\ tasks' = Append(tasks, NewTask(t))
                    /\ fg' = Finish([StartOp("append_insight") EXCEPT
                                        !.insight = t, !.blocking = blocking])
                    /\ result' = Return(NonBlockingMessage)
               ELSE /\ fg' = [StartOp("append_insight") EXCEPT
                                 !.insight = t, !.blocking = blocking,
                                 !.pc = "await_call", !.tool = "append_insight",
                                 !.timeout = DIRECT_TIMEOUT, !.calls = 1]
                    /\ result' = [kind |-> "none", val |-> NoVal]
                    /\ UNCHANGED tasks
    /\ UNCHANGED <<session, tools_cache, remoteOk, connects, listToolsCalls>>

\* lines 243-254: the awaited call comes back, times out or raises
AppendInsightReply(o) ==
    /\ fg.op = "append_insight" /\ fg.pc = "await_call"
    /\ o \in Outcomes(session)
    /\ fg' = Finish(Ended(fg, o))
    /\ result' = IF o.kind = "ok" THEN Return(BlockingMessage(o.resp))
                 ELSE AppendFailureResult(o)
    /\ remoteOk' = (remoteOk \/ o.kind = "ok")
    /\ UNCHANGED <<session, tools_cache, insights, tasks, submitted, connects,
                   listToolsCalls>>

\* _append_insight_task, lines 262-267: the task gets to run and awaits its call
TaskStart(i) ==
    /\ i \in 1..Len(tasks)
    /\ tasks[i].st = "scheduled"
    /\ tasks' = [tasks EXCEPT ![i].st = "calling",
                              ![i].calls = tasks[i].calls + 1,
                              ![i].timeout = DIRECT_TIMEOUT]
    /\ UNCHANGED <<session, tools_cache, insights, fg, result, submitted,
                   remoteOk, connects, listToolsCalls>>

\* the task's awaited call ends; a closed session cannot deliver a reply
TaskOutcomes(s) == IF s = "live" THEN {"ok", "error", "timeout"}
                   ELSE {"error", "timeout"}

\* faulty variant: the background call is awaited without a timer
TaskReply_NoTimer(i, k) ==
    /\ i \in 1..Len(tasks)
    /\ tasks[i].st = "calling"
    /\ k \in TaskOutcomes(session) \ {"timeout"}
    /\ tasks' = [tasks EXCEPT ![i].st = "done"]
    /\ remoteOk' = (remoteOk \/ k = "ok")
    /\ UNCHANGED <<session, tools_cache, insights, fg, result, submitted,
                   connects, listToolsCalls>>

\* faulty variant: a background call that timed out is made again
TaskReply_Retries(i, k) ==
    /\ i \in 1..Len(tasks)
    /\ tasks[i].st = "calling"
    /\ k \in TaskOutcomes(session)
    /\ tasks' = [tasks EXCEPT ![i].st = IF k = "timeout" /\ tasks[i].calls < 2
                                        THEN "scheduled" ELSE "done"]
    /\ remoteOk' = (remoteOk \/ k = "ok")
    /\ UNCHANGED <<session, tools_cache, insights, fg, result, submitted,
                   connects, listToolsCalls>>

\* faulty variant: the error of a failed background call reaches the caller
TaskReply_Propagates(i, k) ==
    /\ i \in 1..Len(tasks)
    /\ tasks[i].st = "calling"
    /\ k \in TaskOutcomes(session)
    /\ tasks' = [tasks EXCEPT ![i].st = "done"]
    /\ remoteOk' = (remoteOk \/ k = "ok")
    /\ result' = IF k = "error" THEN Raise(Val("TransportError", <<"boom">>)) ELSE result
    /\ UNCHANGED <<session, tools_cache, insights, fg, submitted,
                   connects, listToolsCalls>>

\* faulty variant: a failed background call takes its text out of the mirror
TaskReply_Rollback(i, k) ==
    /\ i \in 1..Len(tasks)
    /\ tasks[i].st = "calling"
    /\ k \in TaskOutcomes(session)
    /\ tasks' = [tasks EXCEPT ![i].st = "done"]
    /\ remoteOk' = (remoteOk \/ k = "ok")
    /\ insights' = IF k = "ok" THEN insights
                   ELSE SelectSeq(insights, LAMBDA t : t # tasks[i].insight)
    /\ UNCHANGED <<session, tools_cache, fg, result, submitted,
                   connects, listToolsCalls>>

\* _append_insight_task, lines 268-272: every outcome is only logged
TaskReply(i, k) ==
    /\ i \in 1..Len(tasks)
    /\ tasks[i].st = "calling"
    /\ k \in TaskOutcomes(session)
    /\ tasks' = [tasks EXCEPT ![i].st = "done"]
    /\ remoteOk' = (remoteOk \/ k = "ok")
    /\ UNCHANGED <<session, tools_cache, insights, fg, result, submitted,
                   connects, listToolsCalls>>

----------------------------------------------------------------------------
(* get_insights_memo *)

NoInsightsSentence == <<"No business insights have been discovered yet.">>

\* line 307: "\n".join(f"- {insight}" for insight in self._insights)
RECURSIVE Bullets(_)
Bullets(ins) ==
    IF ins = <<>> THEN <<>>
    ELSE IF Len(ins) = 1 THEN <<"- ">> \o ins[1]
    ELSE <<"- ">> \o ins[1] \o <<"\n">> \o Bullets(Tail(ins))

\* faulty variant: the summary is added from the first record on
WantsSummary_FromOne(ins) == Len(ins) >= 1

\* `if len(self._insights) > 1`
WantsSummary(ins) == Len(ins) > 1

\* faulty variant: the empty mirror is rendered like any other
LocalMemo_NoEmptyCase(ins) ==
    <<"Business Intelligence Memo\n\n", "Key Insights Discovered:\n\n">>
      \o Bullets(ins)

\* lines 304-317: the memo rebuilt from the local mirror
LocalMemo(ins) ==
    IF ins = <<>> THEN NoInsightsSentence
    ELSE <<"Business Intelligence Memo\n\n", "Key Insights Discovered:\n\n">>
           \o Bullets(ins)
           \o (IF WantsSummary(ins)
               THEN <<"\n\nSummary:\n", "Analysis has revealed ", ToStr(Len(ins)),
                      " key business insights that suggest opportunities for strategic optimization and growth.">>
               ELSE <<>>)

\* lines 294-299: the text of a remote memo response
RemoteMemoText(r) ==
    CASE r.shape = "direct_text" -> <<r.text>>
      [] r.shape = "list_text" -> <<"[TextContent(text=", r.text, ")]">>
      [] r.shape = "list_notext" -> <<"str(content:list)">>
      [] r.shape = "list_empty" -> <<"[]">>
      [] r.shape = "content_other" -> <<"str(content:object)">>
      [] r.shape = "plain" -> <<r.text>>
      [] OTHER -> <<"str(response:object)">>

\* faulty variant: a timeout of the remote read is not caught
MemoResult_TimeoutEscapes(o, ins) ==
    IF o.kind = "ok" THEN Return(Val("str", RemoteMemoText(o.resp)))
    ELSE IF o.kind = "timeout" THEN Raise(Val("TimeoutError", <<>>))
    ELSE Return(Val("str", LocalMemo(ins)))

\* faulty variant: the local records are added to the remote memo
MemoResult_Merged(o, ins) ==
    IF o.kind = "ok" THEN Return(Val("str", RemoteMemoText(o.resp) \o Bullets(ins)))
    ELSE Return(Val("str", LocalMemo(ins)))

\* lines 293-317: the parsed remote text, or on any exception the local memo
MemoResult(o, ins) ==
    IF o.kind = "ok" THEN Return(Val("str", RemoteMemoText(o.resp)))
    ELSE Return(Val("str", LocalMemo(ins)))

\* lines 280-291
GetMemoCall ==
    /\ fg.pc = "done"
    /\ IF NotConnected(session)
       THEN /\ fg' = Finish(StartOp("get_insights_memo"))
            /\ result' = Raise(NotConnectedError)
       ELSE /\ fg' = [StartOp("get_insights_memo") EXCEPT
                         !.pc = "await_read", !.timeout = DIRECT_TIMEOUT,
                         !.calls = 1]
            /\ result' = [kind |-> "none", val |-> NoVal]
    /\ UNCHANGED <<session, tools_cache, insights, tasks, submitted, remoteOk,
                   connects, listToolsCalls>>

\* lines 293-317
GetMemoReply(o) ==
    /\ fg.op = "get_insights_memo" /\ fg.pc = "await_read"
    /\ o \in Outcomes(session)
    /\ fg' = Finish(Ended(fg, o))
    /\ result' = MemoResult(o, insights)
    /\ remoteOk' = (remoteOk \/ o.kind = "ok")
    /\ UNCHANGED <<session, tools_cache, insights, tasks, submitted, connects,
                   listToolsCalls>>

----------------------------------------------------------------------------
(* call_with_timeout and call_tool_with_retry *)

\* line 471
TimeoutError(timeout) ==
    Val("TimeoutError", <<"Operation timed out after ", ToStr(timeout), " seconds">>)

TransportError(err) == Val("TransportError", <<err>>)

\* faulty variant: the timeout of wait_for is passed on as it is, with its empty message
AttemptError_RawTimeout(o, timeout) ==
    IF o.kind = "timeout" THEN Val("TimeoutError", <<>>) ELSE TransportError(o.err)

\* call_with_timeout, lines 467-471: what a failed attempt raises into the loop
AttemptError(o, timeout) ==
    IF o.kind = "timeout" THEN TimeoutError(timeout) ELSE TransportError(o.err)

\* self.session.call_tool evaluated while self.session is None
AttributeError ==
    Val("AttributeError", <<"'NoneType' object has no attribute 'call_tool'">>)

\* faulty variant: the per-tool table is not consulted
ResolveTimeout_DefaultOnly(tool) == TIMEOUT_SECONDS

\* lines 544-549
ResolveTimeout(tool) ==
    IF tool = "append_insight" THEN APPEND_INSIGHT_TIMEOUT ELSE TIMEOUT_SECONDS

\* faulty variant: one attempt too many
RetryAgain_OneMore(retries, max_retries) == retries <= max_retries + 1

\* faulty variant: one attempt too few
RetryAgain_Strict(retries, max_retries) == retries < max_retries

\* line 551 and line 561: `retries <= max_retries`
RetryAgain(retries, max_retries) == retries <= max_retries

\* faulty variant: a timeout ends the whole invocation
AfterFailure_TimeoutAborts(f, e) ==
    LET g == [f EXCEPT !.last_error = e, !.retries = f.retries + 1]
    IN  IF RetryAgain(g.retries, g.max_retries) /\ e.ty # "TimeoutError"
        THEN [f |-> [g EXCEPT !.pc = "sleeping"],
              r |-> [kind |-> "none", val |-> NoVal]]
        ELSE [f |-> Finish(g), r |-> Raise(g.last_error)]

\* faulty variant: the error of the first failed attempt is the one kept
AfterFailure_FirstError(f, e) ==
    LET g == [f EXCEPT !.last_error = IF f.last_error.ty = "none" THEN e
                                      ELSE f.last_error,
                       !.retries = f.retries + 1]
    IN  IF RetryAgain(g.retries, g.max_retries)
        THEN [f |-> [g EXCEPT !.pc = "sleeping"],
              r |-> [kind |-> "none", val |-> NoVal]]
        ELSE [f |-> Finish(g), r |-> Raise(g.last_error)]

\* lines 558-566: the except branch; e is the exception of the failed attempt
AfterFailure(f, e) ==
    LET g == [f EXCEPT !.last_error = e, !.retries = f.retries + 1]
    IN  IF RetryAgain(g.retries, g.max_retries)
        THEN [f |-> [g EXCEPT !.pc = "sleeping"],
              r |-> [kind |-> "none", val |-> NoVal]]
        ELSE [f |-> Finish(g), r |-> Raise(g.last_error)]

\* lines 552-556: one attempt, up to its await
Attempt(f) ==
    IF NotConnected(session)
    THEN AfterFailure([f EXCEPT !.last = "noattr", !.fails = f.fails + 1],
                      AttributeError)
    ELSE [f |-> [f EXCEPT !.pc = "await_call", !.calls = f.calls + 1],
          r |-> [kind |-> "none", val |-> NoVal]]

\* max_retries arguments tried: small ones and the default
MaxRetriesArgs == 0..MaxRetriesArg \cup {RETRY_ATTEMPTS}

----------------------------------------------------------------------------
(* The query methods: execute_read_query, execute_write_query,             *)
(* create_table, list_tables, describe_table.  Each is a not-connected     *)
(* check, one call_tool_with_retry with the default arguments, and a       *)
(* try/except around it that shapes what the caller gets.                  *)

QueryOps == {"execute_read_query", "execute_write_query", "create_table",
             "list_tables", "describe_table"}

InvokerOps == QueryOps \cup {"call_tool_with_retry"}

\* the tool each method names (lines 122, 144, 166, 183, 205)
ToolOf(op) ==
    CASE op = "execute_read_query" -> "read_query"
      [] op = "execute_write_query" -> "write_query"
      [] op = "create_table" -> "create_table"
      [] op = "list_tables" -> "list_tables"
      [] OTHER -> "describe_table"

\* isinstance(result, list), for the values parse_response can return
IsList(v) ==
    \/ v = Val("parsed", <<"list:1,2">>)
    \/ v = Val("parsed", <<"list:{name:t}">>)
    \/ v = Val("obj", <<"content:list">>)
    \/ v = Val("obj", <<"content:[]">>)

\* the elements of such a list
ListItems(v) ==
    CASE v = Val("parsed", <<"list:1,2">>) -> <<"1", "2">>
      [] v = Val("parsed", <<"list:{name:t}">>) -> <<"{name:t}">>
      [] v = Val("obj", <<"content:list">>) -> <<"content[0]">>
      [] OTHER -> <<>>

EmptyList == Val("list", <<>>)
AffectedZero == Val("dict", <<"affected_rows", "0">>)

\* faulty variant: the error of the failed call is passed on
ReadQueryResult_Propagates(r) ==
    IF r.kind = "raise" THEN r
    ELSE IF IsList(r.val) THEN Return(Val("list", ListItems(r.val)))
    ELSE Return(EmptyList)

\* execute_read_query lines 121-128, describe_table lines 204-211
ReadQueryResult(r) ==
    IF r.kind = "raise" THEN Return(EmptyList)
    ELSE IF IsList(r.val) THEN Return(Val("list", ListItems(r.val)))
    ELSE Return(EmptyList)

\* line 185: the "name" of every element that is a dict with one
RECURSIVE TableNames(_)
TableNames(items) ==
    IF items = <<>> THEN <<>>
    ELSE (IF Head(items) = "{name:t}" THEN <<"t">> ELSE <<>>)
           \o TableNames(Tail(items))

\* list_tables lines 182-189
ListTablesResult(r) ==
    IF r.kind = "raise" THEN Return(EmptyList)
    ELSE IF IsList(r.val) THEN Return(Val("list", TableNames(ListItems(r.val))))
    ELSE Return(EmptyList)

\* faulty variant: the error of the failed call is passed on
WriteQueryResult_Propagates(r) ==
    IF r.kind = "raise" THEN r
    ELSE IF IsList(r.val) /\ Len(ListItems(r.val)) > 0
         THEN Return(Val("item", <<ListItems(r.val)[1]>>))
    ELSE Return(AffectedZero)

\* execute_write_query lines 143-150
WriteQueryResult(r) ==
    IF r.kind = "raise" THEN Return(AffectedZero)
    ELSE IF IsList(r.val) /\ Len(ListItems(r.val)) > 0
         THEN Return(Val("item", <<ListItems(r.val)[1]>>))
    ELSE Return(AffectedZero)

\* line 167: result if it is a str, else str(result)
StrOf(v) ==
    CASE v.ty = "str" -> v.s
      [] v = Val("parsed", <<"str:x">>) -> <<"x">>
      [] v.ty = "None" -> <<"None">>
      [] OTHER -> <<"str(">> \o v.s \o <<")">>

\* faulty variant: the message says only that there was an error
CreateTableResult_NoDetails(r) ==
    IF r.kind = "raise" THEN Return(Val("message", <<"Error">>))
    ELSE Return(Val("message", StrOf(r.val)))

\* create_table lines 165-170
CreateTableResult(r) ==
    IF r.kind = "raise" THEN Return(Val("message", <<"Error: ">> \o r.val.s))
    ELSE Return(Val("message", StrOf(r.val)))

\* what the method running call_tool_with_retry makes of its outcome r
WrapResult(op, r) ==
    IF r.kind = "none" THEN r
    ELSE CASE op \in {"execute_read_query", "describe_table"} -> ReadQueryResult(r)
           [] op = "list_tables" -> ListTablesResult(r)
           [] op = "execute_write_query" -> WriteQueryResult(r)
           [] op = "create_table" -> CreateTableResult(r)
           [] OTHER -> r

\* a query method is called: the not-connected check, then line 540-556 of
\* call_tool_with_retry with max_retries=RETRY_ATTEMPTS
QueryCall(op) ==
    /\ fg.pc = "done"
    /\ IF NotConnected(session)
       THEN /\ fg' = Finish(StartOp(op))
            /\ result' = Raise(NotConnectedError)
       ELSE LET a == Attempt([StartOp(op) EXCEPT
                                 !.tool = ToolOf(op),
                                 !.max_retries = RETRY_ATTEMPTS,
                                 !.timeout = ResolveTimeout(ToolOf(op))])
            IN  fg' = a.f /\ result' = WrapResult(op, a.r)
    /\ UNCHANGED <<session, tools_cache, insights, tasks, submitted, remoteOk,
                   connects, listToolsCalls>>

\* lines 540-556
RetryCall(tool, max_retries) ==
    /\ fg.pc = "done"
    /\ LET a == Attempt([StartOp("call_tool_with_retry") EXCEPT
                            !.tool = tool, !.max_retries = max_retries,
                            !.timeout = ResolveTimeout(tool)])
       IN  fg' = a.f /\ result' = a.r
    /\ UNCHANGED <<session, tools_cache, insights, tasks, submitted, remoteOk,
                   connects, listToolsCalls>>

\* lines 557-566: the awaited attempt comes back, times out or raises
RetryReply(o) ==
    /\ fg.op \in InvokerOps /\ fg.pc = "await_call"
    /\ o \in Outcomes(session)
    /\ IF o.kind = "ok"
       THEN /\ fg' = Finish(Ended(fg, o))
            /\ result' = WrapResult(fg.op, Return(parse_response(o.resp)))
       ELSE LET a == AfterFailure(Ended(fg, o), AttemptError(o, fg.timeout))
            IN  fg' = a.f /\ result' = WrapResult(fg.op, a.r)
    /\ remoteOk' = (remoteOk \/ o.kind = "ok")
    /\ UNCHANGED <<session, tools_cache, insights, tasks, submitted, connects,
                   listToolsCalls>>

\* faulty variant: the delay is slept once more than asked
RetrySleepDone_Twice ==
    /\ fg.op \in InvokerOps /\ fg.pc = "sleeping"
    /\ LET a == Attempt([fg EXCEPT !.sleeps = fg.sleeps + 2])
       IN  fg' = a.f /\ result' = WrapResult(fg.op, a.r)
    /\ UNCHANGED <<session, tools_cache, insights, tasks, submitted, remoteOk,
                   connects, listToolsCalls>>

\* line 563 returns: the loop goes round to the next attempt
RetrySleepDone ==
    /\ fg.op \in InvokerOps /\ fg.pc = "sleeping"
    /\ LET a == Attempt([fg EXCEPT !.sleeps = fg.sleeps + 1])
       IN  fg' = a.f /\ result' = WrapResult(fg.op, a.r)
    /\ UNCHANGED <<session, tools_cache, insights, tasks, submitted, remoteOk,
                   connects, listToolsCalls>>

----------------------------------------------------------------------------

ConnectNext ==
    \/ ConnectStart
    \/ ConnectStdio
    \/ ConnectSession
    \/ ConnectInit
    \/ ConnectListTools
    \/ ConnectFail

InsightNext ==
    \/ \E t \in InsightTexts, b \in BOOLEAN : AppendInsightCall(t, b)
    \/ \E o \in Outcomes("live") : AppendInsightReply(o)
    \/ \E i \in 1..MaxInsights : TaskStart(i)
    \/ \E i \in 1..MaxInsights, k \in TaskOutcomes("live") : TaskReply(i, k)
    \/ GetMemoCall
    \/ \E o \in Outcomes("live") : GetMemoReply(o)

InvokerNext ==
    \/ \E tool \in ToolNames, m \in MaxRetriesArgs : RetryCall(tool, m)
    \/ \E op \in QueryOps : QueryCall(op)
    \/ \E o \in Outcomes("live") : RetryReply(o)
    \/ RetrySleepDone

Next == ConnectNext \/ InsightNext \/ InvokerNext

\* the whole client
Spec == Init /\ [][Next]_vars

\* the client used for the insight workflow and the memo only
SpecInsights == Init /\ [][ConnectNext \/ InsightNext]_vars

\* the client used for retried tool calls only
SpecInvoker == Init /\ [][ConnectNext \/ InvokerNext]_vars

\* the client of a caller that makes its queries before it appends insights
SpecClient ==
    Init /\ [][ConnectNext \/ InsightNext \/ (submitted = <<>> /\ InvokerNext)]_vars

\* The event loop runs every task that create_task scheduled, and the timer
\* of asyncio.wait_for(..., timeout=5) ends a call that has not ended by
\* itself: the timeout outcome of an awaited direct call cannot be put off
\* forever.
TimedOut == [kind |-> "timeout", resp |-> IdleFg.resp, err |-> ""]

TimerFairness ==
    /\ \A i \in 1..MaxInsights :
          WF_vars(TaskStart(i)) /\ WF_vars(TaskReply(i, "timeout"))
    /\ WF_vars(AppendInsightReply(TimedOut))
    /\ WF_vars(GetMemoReply(TimedOut))

\* the insight workflow when the transport leaves the caller's direct calls
\* unanswered, so that their timers end them
TimersNext ==
    \/ \E t \in InsightTexts, b \in BOOLEAN : AppendInsightCall(t, b)
    \/ AppendInsightReply(TimedOut)
    \/ \E i \in 1..MaxInsights : TaskStart(i)
    \/ \E i \in 1..MaxInsights, k \in TaskOutcomes("live") : TaskReply(i, k)
    \/ GetMemoCall
    \/ GetMemoReply(TimedOut)

SpecTimers == Init /\ [][ConnectNext \/ TimersNext]_vars /\ TimerFairness

----------------------------------------------------------------------------
(* query_handler.py: validate_query, get_query_type                        *)
(*                                                                         *)
(* A query is the text " ".join(words): a sequence of words separated by   *)
(* single blanks.  The word "\n" is a line break, every other word has no  *)
(* white space in it.  No word of the alphabet contains another one, so a  *)
(* regular expression matches at word boundaries only.                     *)

MaxQueryParts == 3      \* pieces a query is put together from

QueryParts ==
    { <<"SELECT", "*">>, <<"FROM", "t">>, <<"FROM">>, <<";">>,
      <<"DROP", "TABLE", "t">>, <<"--">>, <<"/*">>, <<"*/">>, <<"\n">>,
      <<"insert", "INTO", "t">>, <<"UPDATE", "t">>, <<"SET", "x", "=", "1">>,
      <<"DELETE">>, <<"CREATE", "TABLE">>, <<"t", "(">> }

RECURSIVE Flatten(_)
Flatten(ps) == IF ps = <<>> THEN <<>> ELSE Head(ps) \o Flatten(Tail(ps))

\* the queries put together from at most max pieces
Queries(max) ==
    UNION { {Flatten(ps) : ps \in [1..n -> QueryParts]} : n \in 0..max }

\* str.upper() / re.IGNORECASE on one word
Upper(w) == IF w = "insert" THEN "INSERT" ELSE w

\* \s matches the blank between two words and the line break; . does not
\* match the line break
IsNewline(w) == w = "\n"

\* \w+ matches at the start of these words
IsWord(w) ==
    w \notin {";", "--", "/*", "*/", "\n", "*", "=", "("}

\* position of the first word at or after i that is no line break
\* (Len(q) + 1 when there is none): what \s+ or \s* skips
RECURSIVE SkipSpace(_, _)
SkipSpace(q, i) ==
    IF i <= Len(q) /\ IsNewline(q[i]) THEN SkipSpace(q, i + 1) ELSE i

\* the word at position i upper-cased, "" past the end
At(q, i) == IF i >= 1 /\ i <= Len(q) THEN Upper(q[i]) ELSE ""

\* a\s*b / a\s+b : word a at i, word b after optional line breaks
Then(q, i, a, b) == At(q, i) = a /\ At(q, SkipSpace(q, i + 1)) = b

\* a\s+\w+ at i; its value is the position of the \w+ word, 0 when no match
ThenWord(q, i, a) ==
    LET j == SkipSpace(q, i + 1)
    IN IF At(q, i) = a /\ j <= Len(q) /\ IsWord(q[j]) THEN j ELSE 0

\* the words strictly between i and m can be matched by \s+.*\s* :
\* line breaks, then words of one line, then line breaks
OneLineBetween(q, i, m) ==
    \E a \in i..m, b \in i..m :
        /\ a <= b
        /\ \A k \in (i + 1)..(m - 1) :
              IF k <= a \/ k > b THEN IsNewline(q[k]) ELSE ~IsNewline(q[k])

\* the patterns of dangerous_patterns, in list order
dangerous_patterns ==
    << ";\\s*DROP\\s+TABLE", ";\\s*DELETE\\s+FROM", ";\\s*UPDATE\\s+.*\\s*SET",
       ";\\s*INSERT\\s+INTO", "--", "/\\*.*\\*/" >>

\* re.search(pattern, query, re.IGNORECASE)
Search(pattern, q) ==
    CASE pattern = ";\\s*DROP\\s+TABLE" ->
            \E i \in 1..Len(q) :
                q[i] = ";" /\ Then(q, SkipSpace(q, i + 1), "DROP", "TABLE")
      [] pattern = ";\\s*DELETE\\s+FROM" ->
            \E i \in 1..Len(q) :
                q[i] = ";" /\ Then(q, SkipSpace(q, i + 1), "DELETE", "FROM")
      [] pattern = ";\\s*UPDATE\\s+.*\\s*SET" ->
            \E i \in 1..Len(q), m \in 1..Len(q) :
                LET j == SkipSpace(q, i + 1)
                IN /\ q[i] = ";" /\ At(q, j) = "UPDATE"
                   /\ j < m /\ At(q, m) = "SET"
                   /\ OneLineBetween(q, j, m)
      [] pattern = ";\\s*INSERT\\s+INTO" ->
            \E i \in 1..Len(q) :
                q[i] = ";" /\ Then(q, SkipSpace(q, i + 1), "INSERT", "INTO")
      [] pattern = "--" ->
            \E i \in 1..Len(q) : q[i] = "--"
      [] pattern = "/\\*.*\\*/" ->
            \E i \in 1..Len(q), m \in 1..Len(q) :
                /\ i < m /\ q[i] = "/*" /\ q[m] = "*/"
                /\ \A k \in (i + 1)..(m - 1) : ~IsNewline(q[k])
      [] pattern = "FROM\\s+\\w+" ->
            \E i \in 1..Len(q) : ThenWord(q, i, "FROM") # 0
      [] pattern = "INTO\\s+\\w+" ->
            \E i \in 1..Len(q) : ThenWord(q, i, "INTO") # 0
      [] pattern = "SET\\s+\\w+\\s*=" ->
            \E i \in 1..Len(q) :
                LET j == ThenWord(q, i, "SET")
                IN j # 0 /\ At(q, SkipSpace(q, j + 1)) = "="
      [] pattern = "TABLE\\s+\\w+\\s*\\(" ->
            \E i \in 1..Len(q) :
                LET j == ThenWord(q, i, "TABLE")
                IN j # 0 /\ At(q, SkipSpace(q, j + 1)) = "("
      [] OTHER -> FALSE

\* `not query or not query.strip()`
IsBlank(q) == \A i \in 1..Len(q) : IsNewline(q[i])

\* get_query_type: query.strip().upper().startswith(...)
get_query_type(q) ==
    LET i == SkipSpace(q, 1)
        first == At(q, i)
    IN CASE first \in {"SELECT", "INSERT", "UPDATE", "DELETE"} -> first
         [] first = "CREATE" /\ At(q, i + 1) = "TABLE" -> "CREATE"
         [] first \in {"ALTER", "DROP"} -> first
         [] OTHER -> "UNKNOWN"

\* Python's None as the error of the returned pair; no message is this text
PyNone == <<"None">>

\* the pair (is_valid, error_message)
Pair(is_valid, error) == Val("tuple", <<is_valid>> \o error)

\* index of the first dangerous pattern found in q, 0 when there is none
FirstDangerous(q) ==
    LET hits == {n \in 1..Len(dangerous_patterns) : Search(dangerous_patterns[n], q)}
    IN IF hits = {} THEN 0 ELSE CHOOSE n \in hits : \A k \in hits : n <= k

\* the per-type check: the clause pattern of a type and the message when
\* it is missing
ClausePattern(query_type) ==
    CASE query_type = "SELECT" -> "FROM\\s+\\w+"
      [] query_type = "INSERT" -> "INTO\\s+\\w+"
      [] query_type = "UPDATE" -> "SET\\s+\\w+\\s*="
      [] query_type = "DELETE" -> "FROM\\s+\\w+"
      [] query_type = "CREATE" -> "TABLE\\s+\\w+\\s*\\("
      [] OTHER -> ""

ClauseMessage(query_type) ==
    CASE query_type = "SELECT" -> "SELECT query must include FROM clause"
      [] query_type = "INSERT" -> "INSERT query must include INTO clause"
      [] query_type = "UPDATE" -> "UPDATE query must include SET clause"
      [] query_type = "DELETE" -> "DELETE query must include FROM clause"
      [] query_type = "CREATE" ->
            "CREATE TABLE query must include table name and column definitions"
      [] OTHER -> ""

SupportedTypes == {"SELECT", "INSERT", "UPDATE", "DELETE", "CREATE"}

\* faulty variant: the final else is missing, other types fall through
validate_query_FallsThrough(q) ==
    LET query_type == get_query_type(q)
    IN IF IsBlank(q) THEN Pair("False", <<"Query cannot be empty">>)
       ELSE IF FirstDangerous(q) # 0
       THEN Pair("False", <<"Query contains potentially dangerous pattern: ",
                            dangerous_patterns[FirstDangerous(q)]>>)
       ELSE IF query_type \in SupportedTypes /\ ~Search(ClausePattern(query_type), q)
       THEN Pair("False", <<ClauseMessage(query_type)>>)
       ELSE Pair("True", PyNone)

validate_query(q) ==
    LET query_type == get_query_type(q)
    IN IF IsBlank(q) THEN Pair("False", <<"Query cannot be empty">>)
       ELSE IF FirstDangerous(q) # 0
       THEN Pair("False", <<"Query contains potentially dangerous pattern: ",
                            dangerous_patterns[FirstDangerous(q)]>>)
       ELSE IF query_type \notin SupportedTypes
       THEN Pair("False", <<"Unsupported query type: ", query_type>>)
       ELSE IF ~Search(ClausePattern(query_type), q)
       THEN Pair("False", <<ClauseMessage(query_type)>>)
       ELSE Pair("True", PyNone)

\* a caller about to apply one of the module-level helpers to arg
HelperCall(op, arg) == [op |-> op, pc |-> "call", arg |-> arg]

\* a fresh client whose caller is about to apply helper op to one of args
InitHelper(op, args) ==
    /\ session = "None"
    /\ tools_cache = "None"
    /\ insights = <<>>
    /\ tasks = <<>>
    /\ fg \in {HelperCall(op, a) : a \in args}
    /\ result = [kind |-> "none", val |-> NoVal]
    /\ submitted = <<>>
    /\ remoteOk = FALSE
    /\ connects = 0
    /\ listToolsCalls = 0

ValidateQuery ==
    /\ fg.op = "validate_query" /\ fg.pc = "call"
    /\ fg' = [fg EXCEPT !.pc = "done"]
    /\ result' = Return(validate_query(fg.arg))
    /\ UNCHANGED <<session, tools_cache, insights, tasks, submitted, remoteOk,
                   connects, listToolsCalls>>

\* validate_query applied to every query of Queries
SpecValidate == InitHelper("validate_query", Queries(MaxQueryParts)) /\ [][ValidateQuery]_vars

----------------------------------------------------------------------------
(* insight_gen.py: analyze_query_results                                   *)
(*                                                                         *)
(* Result rows are the rows of one query: dicts with the same keys in the  *)
(* same order.  A row is the sequence of its values, columns the sequence  *)
(* of its keys.                                                            *)

MaxRows == 2            \* rows in a result list

\* a cell value: ty is "int" or "str", s is str(value), n its number
IntCell(n) == [ty |-> "int", s |-> ToStr(n), n |-> n]
StrCell(s) == [ty |-> "str", s |-> s, n |-> 0]

\* "^2" stands for the one-character string U+00B2 (superscript two), for
\* which str.isdigit() is True and float() raises ValueError
SuperscriptTwo == StrCell("^2")

MeasureCells == {IntCell(1), IntCell(2), StrCell("3"), StrCell("x"), SuperscriptTwo}
LabelCells == {StrCell("a"), StrCell("b")}

ColumnLists ==
    { <<"COUNT(*)">>, <<"STATUS", "SUM(M)">>, <<"STATUS", "M">>, <<"status", "m">> }

CellsOf(col) == IF col \in {"STATUS", "status"} THEN LabelCells ELSE MeasureCells

RowsOf(columns) ==
    {r \in [1..Len(columns) -> LabelCells \cup MeasureCells] :
        \A c \in 1..Len(columns) : r[c] \in CellsOf(columns[c])}

\* the result lists of at most max rows: [columns, rows]
ResultLists(max) ==
    UNION { UNION { {[columns |-> cols, rows |-> rs] : rs \in [1..n -> RowsOf(cols)]}
                    : n \in 0..max }
            : cols \in ColumnLists }

\* query texts, as words; "GROUP BY" is kept as one word
AnalyzeQueries ==
    { <<"SELECT", "COUNT(*)", "FROM", "T">>,
      <<"select", "count(*)", "from", "T">>,
      <<"SELECT", "STATUS", "SUM(M)", "FROM", "T", "GROUP BY", "STATUS">>,
      <<"SELECT", "STATUS", "M", "FROM", "T", "GROUP BY", "STATUS">>,
      <<"SELECT", "STATUS", "M", "FROM", "T">> }

AnalyzeArgs(max) == [query : AnalyzeQueries, results : ResultLists(max)]

\* str.upper() on a word of a query or on a key
UpperWord(w) ==
    CASE w = "select" -> "SELECT" [] w = "count(*)" -> "COUNT(*)"
      [] w = "from" -> "FROM" [] w = "status" -> "STATUS" [] w = "m" -> "M"
      [] OTHER -> w

\* `sub in w` for an upper-cased word w of the alphabet
InWord(sub, w) ==
    \/ sub = w
    \/ sub = "COUNT" /\ w = "COUNT(*)"
    \/ sub = "SUM" /\ w = "SUM(M)"
    \/ sub = "M" /\ w \in {"SUM(M)", "FROM"}
    \/ sub = "T" /\ w \in {"SELECT", "STATUS", "COUNT(*)"}

\* `sub in query.upper()`
InQuery(sub, query) == \E i \in 1..Len(query) : InWord(sub, UpperWord(query[i]))

Aggregates == <<"AVG", "SUM", "MIN", "MAX">>

\* query.upper().split("GROUP BY")[1]: the words after the first GROUP BY
\* up to the next one
RECURSIVE UpToGroupBy(_)
UpToGroupBy(ws) ==
    IF ws = <<>> \/ UpperWord(Head(ws)) = "GROUP BY" THEN <<>>
    ELSE <<UpperWord(Head(ws))>> \o UpToGroupBy(Tail(ws))

RECURSIVE AfterGroupBy(_)
AfterGroupBy(ws) ==
    IF UpperWord(Head(ws)) = "GROUP BY" THEN UpToGroupBy(Tail(ws))
    ELSE AfterGroupBy(Tail(ws))

\* str.isdigit() and float() on a cell's text
IsDigit(cell) == cell.s \in {"1", "2", "3", "^2"}
FloatRaises(cell) == cell.s \notin {"1", "2", "3"}
FloatOf(cell) ==
    CASE cell.s = "1" -> 1 [] cell.s = "2" -> 2 [] cell.s = "3" -> 3 [] OTHER -> 0

\* `isinstance(v, (int, float)) or str(v).isdigit()`
Numeric(cell) == cell.ty = "int" \/ IsDigit(cell)

\* the key function of max(): float(v) or 0
\* the key function of min(): float(v) or float('inf')
MaxKey(cell) == IF Numeric(cell) THEN FloatOf(cell) ELSE 0
MinKeyLess(a, b) ==
    /\ Numeric(a)
    /\ (~Numeric(b) \/ FloatOf(a) < FloatOf(b))

\* max(results, key=...) and min(results, key=...): the first row that no
\* other row beats
TopRow(rows, m) ==
    rows[CHOOSE i \in 1..Len(rows) :
            /\ \A k \in 1..Len(rows) : MaxKey(rows[k][m]) <= MaxKey(rows[i][m])
            /\ \A k \in 1..(i - 1) : MaxKey(rows[k][m]) < MaxKey(rows[i][m])]

BottomRow(rows, m) ==
    rows[CHOOSE i \in 1..Len(rows) :
            /\ \A k \in 1..Len(rows) : ~MinKeyLess(rows[k][m], rows[i][m])
            /\ \A k \in 1..(i - 1) : MinKeyLess(rows[i][m], rows[k][m])]

RowCountInsight(n) == <<"Query returned ", ToStr(n), " rows of data.">>
NoDataInsights == << <<"No data available for analysis.">> >>

\* the count branch: one insight per key of the first row that has COUNT in it
RECURSIVE CountInsights(_, _)
CountInsights(columns, row) ==
    IF columns = <<>> THEN <<>>
    ELSE (IF InWord("COUNT", UpperWord(Head(columns)))
          THEN << <<"Total count: ", Head(row).s>> >> ELSE <<>>)
         \o CountInsights(Tail(columns), Tail(row))

\* the aggregate branch: one insight per cell whose key names an aggregate
RECURSIVE AggregateRow(_, _)
AggregateRow(columns, row) ==
    IF columns = <<>> THEN <<>>
    ELSE (IF \E a \in 1..Len(Aggregates) : InWord(Aggregates[a], UpperWord(Head(columns)))
          THEN << <<Head(columns), ": ", Head(row).s>> >> ELSE <<>>)
         \o AggregateRow(Tail(columns), Tail(row))

RECURSIVE AggregateInsights(_, _)
AggregateInsights(columns, rows) ==
    IF rows = <<>> THEN <<>>
    ELSE AggregateRow(columns, Head(rows)) \o AggregateInsights(columns, Tail(rows))

\* the group-by branch: grouped_col is the last key found in the text after
\* GROUP BY, measure_cols the keys not found there (0 / <<>> when none)
InGroupBy(key, query) ==
    \E i \in 1..Len(AfterGroupBy(query)) : InWord(key, AfterGroupBy(query)[i])

GroupedCol(columns, query) ==
    LET found == {c \in 1..Len(columns) : InGroupBy(columns[c], query)}
    IN IF found = {} THEN 0 ELSE CHOOSE c \in found : \A d \in found : d <= c

FirstMeasureCol(columns, query) ==
    LET rest == {c \in 1..Len(columns) : ~InGroupBy(columns[c], query)}
    IN IF rest = {} THEN 0 ELSE CHOOSE c \in rest : \A d \in rest : c <= d

ValueError(cell) == Val("ValueError", <<"could not convert string to float: '", cell.s, "'">>)

GroupByInsights(columns, rows, g, m) ==
    LET top == TopRow(rows, m)
        bottom == BottomRow(rows, m)
    IN << <<"Top ", columns[g], ": ", top[g].s, " with ", columns[m], " of ", top[m].s>>,
          <<"Bottom ", columns[g], ": ", bottom[g].s, " with ", columns[m], " of ",
            bottom[m].s>> >>

analyze_query_results(query, results) ==
    LET columns == results.columns
        rows == results.rows
        row_count == Len(rows)
        first == << RowCountInsight(row_count) >>
        g == GroupedCol(columns, query)
        m == FirstMeasureCol(columns, query)
    IN IF rows = <<>> THEN Return(Val("list", NoDataInsights))
       ELSE IF InQuery("COUNT", query) /\ row_count = 1
       THEN Return(Val("list", first \o CountInsights(columns, rows[1])))
       ELSE IF \E a \in 1..Len(Aggregates) : InQuery(Aggregates[a], query)
       THEN Return(Val("list", first \o AggregateInsights(columns, rows)))
       ELSE IF InQuery("GROUP BY", query) /\ row_count > 1 /\ g # 0 /\ m # 0
       THEN IF \E k \in 1..Len(rows) : Numeric(rows[k][m]) /\ FloatRaises(rows[k][m])
            THEN LET k == CHOOSE k \in 1..Len(rows) :
                            /\ Numeric(rows[k][m]) /\ FloatRaises(rows[k][m])
                            /\ \A j \in 1..(k - 1) :
                                  ~(Numeric(rows[j][m]) /\ FloatRaises(rows[j][m]))
                 IN Raise(ValueError(rows[k][m]))
            ELSE Return(Val("list", first \o GroupByInsights(columns, rows, g, m)))
       ELSE Return(Val("list", first))

AnalyzeQueryResults ==
    /\ fg.op = "analyze_query_results" /\ fg.pc = "call"
    /\ fg' = [fg EXCEPT !.pc = "done"]
    /\ result' = analyze_query_results(fg.arg.query, fg.arg.results)
    /\ UNCHANGED <<session, tools_cache, insights, tasks, submitted, remoteOk,
                   connects, listToolsCalls>>

\* analyze_query_results applied to every query and result list
SpecAnalyze ==
    InitHelper("analyze_query_results", AnalyzeArgs(MaxRows)) /\ [][AnalyzeQueryResults]_vars

----------------------------------------------------------------------------
(* query_handler.py: format_query_results                                  *)
(*                                                                         *)
(* Texts are sequences of characters here, so that len(), ljust() and the  *)
(* slice [:w] are what they are in the code.  Rows are uniform, as in      *)
(* analyze_query_results; a cell is str(value).                            *)

DEFAULT_MAX_WIDTH == 80
MIN_COL_WIDTH == 10
SEPARATOR_WIDTH == 3
NARROW_MAX_WIDTH == 20

\* the values of max_width tried
MaxWidths == {NARROW_MAX_WIDTH, DEFAULT_MAX_WIDTH}

FormatColumnLists == { << <<"i", "d">> >>, << <<"i", "d">>, <<"n", "a", "m", "e">> >> }

LongCell ==
    <<"a", "b", "c", "d", "e", "f", "g", "h", "i", "j",
      "k", "l", "m", "n", "o", "p", "q", "r", "s", "t">>

CellTexts == { <<"1">>, <<"J", "o">>, LongCell }

FormatResults(max) ==
    UNION { UNION { {[columns |-> cols, rows |-> rs]
                        : rs \in [1..n -> [1..Len(cols) -> CellTexts]]}
                    : n \in 0..max }
            : cols \in FormatColumnLists }

FormatArgs(max) == [results : FormatResults(max), max_width : MaxWidths]

Max(a, b) == IF a >= b THEN a ELSE b

RECURSIVE Repeat(_, _)
Repeat(c, n) == IF n <= 0 THEN <<>> ELSE <<c>> \o Repeat(c, n - 1)

\* str.ljust(w) and the slice [:w]
Ljust(s, w) == s \o Repeat(" ", w - Len(s))
Cut(s, w) == IF Len(s) <= w THEN s ELSE SubSeq(s, 1, w)

\* sep.join(parts)
RECURSIVE Join(_, _)
Join(sep, parts) ==
    IF parts = <<>> THEN <<>>
    ELSE IF Len(parts) = 1 THEN parts[1]
    ELSE parts[1] \o sep \o Join(sep, Tail(parts))

RECURSIVE SumSeq(_)
SumSeq(ns) == IF ns = <<>> THEN 0 ELSE Head(ns) + SumSeq(Tail(ns))

RECURSIVE MaxLenIn(_, _)
MaxLenIn(rows, c) ==
    IF rows = <<>> THEN 0 ELSE Max(Len(Head(rows)[c]), MaxLenIn(Tail(rows), c))

\* col_widths before scaling: the longest of the name and the cells
NaturalWidths(columns, rows) ==
    [c \in 1..Len(columns) |-> Max(Len(columns[c]), MaxLenIn(rows, c))]

TotalWidth(widths) == SumSeq(widths) + (SEPARATOR_WIDTH * Len(widths)) - 1

\* faulty variant: scaling without the minimum column width
ScaledWidths_NoFloor(widths, max_width) ==
    IF TotalWidth(widths) > max_width
    THEN [c \in 1..Len(widths) |-> (widths[c] * max_width) \div TotalWidth(widths)]
    ELSE widths

\* col_widths after `if total_width > max_width`
ScaledWidths(widths, max_width) ==
    IF TotalWidth(widths) > max_width
    THEN [c \in 1..Len(widths) |->
            Max(MIN_COL_WIDTH, (widths[c] * max_width) \div TotalWidth(widths))]
    ELSE widths

Bar == <<" ", "|", " ">>

Header(columns, widths) ==
    Join(Bar, [c \in 1..Len(columns) |-> Ljust(columns[c], widths[c])])

FormatRow(row, widths) ==
    Join(Bar, [c \in 1..Len(widths) |-> Cut(Ljust(row[c], widths[c]), widths[c])])

format_query_results(results, max_width) ==
    IF results.rows = <<>>
    THEN <<"No results found.">>
    ELSE LET columns == results.columns
             rows == results.rows
             widths == ScaledWidths(NaturalWidths(columns, rows), max_width)
             header == Header(columns, widths)
         IN header \o <<"\n">> \o Repeat("-", Len(header)) \o <<"\n">>
            \o Join(<<"\n">>, [r \in 1..Len(rows) |-> FormatRow(rows[r], widths)])

FormatQueryResults ==
    /\ fg.op = "format_query_results" /\ fg.pc = "call"
    /\ fg' = [fg EXCEPT !.pc = "done"]
    /\ result' = Return(Val("str", format_query_results(fg.arg.results, fg.arg.max_width)))
    /\ UNCHANGED <<session, tools_cache, insights, tasks, submitted, remoteOk,
                   connects, listToolsCalls>>

\* format_query_results applied to every result list and width
SpecFormat ==
    InitHelper("format_query_results", FormatArgs(MaxRows)) /\ [][FormatQueryResults]_vars

----------------------------------------------------------------------------
(* Properties *)

Range(q) == {q[i] : i \in 1..Len(q)}

\* the texts occur in the string s, one after the other, from position `from` on
RECURSIVE ContainsInOrder(_, _, _)
ContainsInOrder(s, texts, from) ==
    IF texts = <<>> THEN TRUE
    ELSE LET t == Head(texts)
         IN  \E j \in from..(Len(s) - Len(t) + 1) :
                /\ SubSeq(s, j, j + Len(t) - 1) = t
                /\ ContainsInOrder(s, Tail(texts), j + Len(t))

MemoDone == fg.op = "get_insights_memo" /\ fg.pc = "done"
RetryDone == fg.op = "call_tool_with_retry" /\ fg.pc = "done"
BlockingAppendDone ==
    fg.op = "append_insight" /\ fg.blocking /\ fg.pc = "done" /\ fg.calls = 1

\* C1: after any appends, in any mix of modes, on a connected client, with
\* no remote call or read ever succeeding, the text get_insights_memo returns
\* contains every submitted insight text in submission order.
C1_MirrorDurability ==
    (MemoDone /\ ~NotConnected(session) /\ ~remoteOk)
        => /\ result.kind = "return"
           /\ ContainsInOrder(result.val.s, submitted, 1)

C1_Witness ==
    /\ MemoDone /\ ~remoteOk /\ result.kind = "return"
    /\ Len(submitted) = 2 /\ submitted[1] # submitted[2]
    /\ Len(tasks) = 1
    /\ ContainsInOrder(result.val.s, submitted, 1)

\* C2: when every call of an invocation times out, call_tool_with_retry makes
\* exactly max_retries + 1 calls of session.call_tool and then raises; it
\* never makes more calls than that.
C2_TimeoutExhaustion ==
    fg.op = "call_tool_with_retry" =>
        /\ fg.calls <= fg.max_retries + 1
        /\ (fg.pc = "done" /\ fg.calls >= 1 /\ fg.timeouts = fg.calls)
              => (result.kind = "raise" /\ fg.calls = fg.max_retries + 1)
        /\ (fg.pc # "done" /\ fg.timeouts = fg.fails) => result.kind = "none"

C2_Witness ==
    /\ RetryDone /\ fg.max_retries = 2
    /\ fg.calls = 3 /\ fg.timeouts = 3
    /\ result.kind = "raise"

\* C3: when the transport fails on the first k calls, k <= max_retries, and
\* the next call succeeds, call_tool_with_retry returns the normalized value
\* of that response after exactly k + 1 calls and k sleeps; it raises only
\* after max_retries + 1 failures.
C3_RetrySuccess ==
    /\ (RetryDone /\ fg.fails <= fg.max_retries)
          => /\ result = Return(parse_response(fg.resp))
             /\ fg.last = "ok"
             /\ fg.calls = fg.fails + 1
             /\ fg.sleeps = fg.fails
    /\ (fg.op = "call_tool_with_retry" /\ fg.pc = "await_call")
          => (fg.calls = fg.fails + 1 /\ fg.fails <= fg.max_retries)

C3_Witness ==
    /\ RetryDone /\ fg.max_retries = 2 /\ fg.fails = 2 /\ fg.timeouts = 0
    /\ fg.calls = 3
    /\ fg.resp = [shape |-> "plain", text |-> "OK"]
    /\ result = Return(Val("str", <<"OK">>))

C5_MirrorBeforeRemote ==
    /\ [](/\ (fg.op = "append_insight" /\ fg.calls >= 1)
                 => fg.insight \in Range(insights)
          /\ \A i \in 1..Len(tasks) : tasks[i].insight \in Range(insights))
    /\ [][\A t \in Range(insights) : t \in Range(insights')]_vars

C5_Witness ==
    /\ BlockingAppendDone /\ fg.fails = 1
    /\ fg.insight \in Range(insights)
    /\ \E i \in 1..Len(tasks) :
          tasks[i].st = "calling" /\ tasks[i].insight \in Range(insights)

\* C6: the step in which a connected client accepts a non-blocking
\* append_insight returns the "started" message, leaves the new background
\* task scheduled with no remote call issued, and touches no transport.
C6_NonBlockingReturns ==
    [][(Len(submitted') > Len(submitted) /\ ~fg'.blocking) =>
          /\ result' = Return(Val("message",
                                 <<"Insight submission started (non-blocking)">>))
          /\ fg'.pc = "done" /\ fg'.calls = 0
          /\ Len(tasks') = Len(tasks) + 1
          /\ tasks'[Len(tasks')].insight = fg'.insight
          /\ tasks'[Len(tasks')].st = "scheduled"
          /\ tasks'[Len(tasks')].calls = 0
          /\ remoteOk' = remoteOk]_vars

C6_Witness ==
    /\ fg.op = "append_insight" /\ ~fg.blocking /\ fg.pc = "done"
    /\ result = Return(NonBlockingMessage)
    /\ Len(tasks) = 2
    /\ tasks[1].st = "calling"
    /\ tasks[2].st = "scheduled" /\ tasks[2].calls = 0

\* C7: a blocking append_insight issues at most one remote call, under the
\* 5 second timeout of its own and not the timeout the invoker resolves for
\* append_insight, and ends after that one attempt however it comes out.
C7_BlockingSingleAttempt ==
    (fg.op = "append_insight" /\ fg.blocking) =>
        /\ fg.calls <= 1
        /\ fg.retries = 0 /\ fg.sleeps = 0
        /\ fg.calls = 1 => (fg.timeout = 5 /\ fg.timeout # ResolveTimeout("append_insight"))
        /\ fg.last # "none" => fg.pc = "done"

C7_Witness ==
    /\ BlockingAppendDone /\ fg.last = "timeout" /\ fg.timeout = 5

\* C8: a blocking append_insight whose remote attempt fails returns a
\* message and does not raise: the soft-timeout message on a timeout, and
\* "Error: " followed by the error's text on any other error.
C8_BlockingNeverRaises ==
    (BlockingAppendDone /\ fg.last # "ok") =>
        /\ result.kind = "return"
        /\ result.val.ty = "message"
        /\ fg.last = "timeout" =>
              result.val.s = <<"Insight submission timed out, but may have succeeded">>
        /\ fg.last = "error" => result.val.s = <<"Error: ", fg.err>>

C8_Witness ==
    /\ BlockingAppendDone /\ fg.last = "error" /\ fg.err = "reset"
    /\ result.val.s = <<"Error: ", "reset">>

\* C9 as stated: a successful blocking append returns the text extracted from
\* the response by the normalizer's shape rules, for every shape.
C9_Original ==
    (BlockingAppendDone /\ fg.last = "ok" /\ ExtractContent(fg.resp).str)
        => result = Return(Val("message", <<ExtractContent(fg.resp).s>>))

\* C9 amended: a successful blocking append returns the first content
\* element's text, verbatim and unparsed, when the response's content is a
\* non-empty list whose first element has a text; for every other response
\* shape it returns the fixed message "Insight added to memo".
C9_BlockingSuccessMessage ==
    (BlockingAppendDone /\ fg.last = "ok") =>
        /\ result.kind = "return" /\ result.val.ty = "message"
        /\ fg.resp.shape = "list_text" => result.val.s = <<fg.resp.text>>
        /\ fg.resp.shape # "list_text" => result.val.s = <<"Insight added to memo">>

C9_Witness ==
    /\ BlockingAppendDone /\ fg.last = "ok"
    /\ fg.resp = [shape |-> "direct_text", text |-> "true"]
    /\ result.val.s = <<"Insight added to memo">>

\* C10 as stated: in every client state get_insights_memo returns a string.
C10_Original ==
    MemoDone => (result.kind = "return" /\ result.val.ty = "str")

\* C10 amended: on a client that has a session, get_insights_memo returns a
\* string whatever the remote read does (success with any response shape,
\* timeout, transport error); with no session it raises the not-connected
\* error.
C10_MemoNeverRaisesConnected ==
    MemoDone =>
        /\ ~NotConnected(session) => (result.kind = "return" /\ result.val.ty = "str")
        /\ NotConnected(session) => result = Raise(NotConnectedError)

C10_Witness ==
    /\ MemoDone /\ fg.last = "timeout" /\ session = "live"
    /\ result.kind = "return" /\ result.val.ty = "str"

MemoFellBack == MemoDone /\ fg.last \in {"timeout", "error"}

\* C11: when the remote memo read fails and the mirror is empty,
\* get_insights_memo returns exactly the one fixed sentence: no header, no
\* bullet, no summary.
C11_EmptyMirrorSentence ==
    (MemoFellBack /\ insights = <<>>) =>
        result = Return(Val("str",
                            <<"No business insights have been discovered yet.">>))

C11_Witness ==
    /\ MemoFellBack /\ fg.last = "error" /\ session = "live"
    /\ insights = <<>>
    /\ Len(result.val.s) = 1

\* C12: when the remote memo read fails and the mirror holds n >= 1 records,
\* the memo is the two header lines, then one "- <text>" line per record in
\* insertion order joined by newlines, then the summary naming n if and only
\* if n > 1.
C12_LocalMemoLayout ==
    (MemoFellBack /\ Len(insights) >= 1) =>
        LET n == Len(insights)
            s == result.val.s
        IN  /\ result.kind = "return" /\ result.val.ty = "str"
            /\ Len(s) = 2 + (3 * n - 1) + (IF n > 1 THEN 4 ELSE 0)
            /\ s[1] = "Business Intelligence Memo\n\n"
            /\ s[2] = "Key Insights Discovered:\n\n"
            /\ \A k \in 1..n :
                  /\ s[3 * k] = "- "
                  /\ <<s[3 * k + 1]>> = insights[k]
                  /\ k < n => s[3 * k + 2] = "\n"
            /\ n > 1 => /\ s[3 * n + 2] = "\n\nSummary:\n"
                        /\ s[3 * n + 3] = "Analysis has revealed "
                        /\ s[3 * n + 4] = ToStr(n)

C12_Witness ==
    /\ MemoFellBack /\ Len(insights) = 1
    /\ result.val.s = <<"Business Intelligence Memo\n\n",
                        "Key Insights Discovered:\n\n", "- ">> \o insights[1]

\* C13: when the remote memo read succeeds, get_insights_memo returns the
\* text the normalizer's shape rules extract from the response; a list
\* content whose first element has a text yields that text.
C13_RemoteMemoVerbatim ==
    (MemoDone /\ fg.last = "ok" /\ ExtractContent(fg.resp).str) =>
        result = Return(Val("str", <<ExtractContent(fg.resp).s>>))

\* C14: parse_response never raises, and a text that neither json.loads nor
\* ast.literal_eval accepts comes back as that same string.
C14_UnparseableTextAsIs ==
    (RetryDone /\ fg.last = "ok") =>
        /\ result.kind = "return"
        /\ (/\ ExtractContent(fg.resp).str
            /\ ~JsonLoads(ExtractContent(fg.resp)).ok
            /\ ~LiteralEval(ExtractContent(fg.resp)).ok)
              => result.val = Val("str", <<fg.resp.text>>)

\* C15: a text normalizes to the same value whether it arrives as a plain
\* string, as the text of the first element of a list content, or as the
\* text of the content itself, JSON texts included.
C15_ShapeIndependent ==
    (RetryDone /\ fg.last = "ok" /\ fg.resp.shape \in {"plain", "list_text", "direct_text"}) =>
        \A sh \in {"plain", "list_text", "direct_text"} :
            result = Return(parse_response([shape |-> sh, text |-> fg.resp.text]))

C15_Witness ==
    /\ RetryDone /\ fg.last = "ok"
    /\ fg.resp = [shape |-> "direct_text", text |-> "true"]
    /\ result = Return(Val("parsed", <<"bool:True">>))
    /\ parse_response([shape |-> "plain", text |-> "true"]) = result.val
    /\ parse_response([shape |-> "list_text", text |-> "true"]) = result.val

QueryDone(op) == fg.op = op /\ fg.pc = "done" /\ ~NotConnected(session)

\* the call_tool_with_retry of the finished method gave up after its last retry
Exhausted == fg.last # "ok" /\ fg.fails = fg.max_retries + 1

\* C16: on a connected client execute_read_query, list_tables and
\* describe_table never raise, and return the empty list whenever the retried
\* call was exhausted or its result is not a list.
C16_ReadPathSwallows ==
    \A op \in {"execute_read_query", "list_tables", "describe_table"} :
        QueryDone(op) =>
            /\ result.kind = "return"
            /\ result.val.ty = "list"
            /\ (Exhausted \/ ~IsList(parse_response(fg.resp)))
                  => result.val.s = <<>>

C16_Witness ==
    /\ QueryDone("list_tables") /\ Exhausted
    /\ fg.fails = 6 /\ fg.timeouts = 3
    /\ result = Return(Val("list", <<>>))

\* C17: on a connected client execute_write_query returns
\* {"affected_rows": 0}, and does not raise, whenever its tool invocation
\* fails.
C17_WriteFailureZero ==
    (QueryDone("execute_write_query") /\ Exhausted) =>
        result = Return(Val("dict", <<"affected_rows", "0">>))

C17_Witness ==
    /\ QueryDone("execute_write_query") /\ Exhausted
    /\ fg.last = "timeout" /\ fg.calls = 6
    /\ result.kind = "return"

\* C18 as stated: on a failed invocation create_table and execute_write_query
\* both return an object with an embedded error message.
C18_Original ==
    \A op \in {"create_table", "execute_write_query"} :
        (QueryDone(op) /\ Exhausted) =>
            /\ result.kind = "return"
            /\ result.val.ty = "message"
            /\ Len(result.val.s) >= 2 /\ result.val.s[1] = "Error: "

\* C18 amended: on a failed invocation neither method raises; create_table
\* returns {"message": "Error: <text of the final attempt's error>"}, while
\* execute_write_query returns {"affected_rows": 0}, which carries no error
\* message.
C18_FailureResults ==
    /\ (QueryDone("create_table") /\ Exhausted) =>
          /\ result.kind = "return" /\ result.val.ty = "message"
          /\ fg.last = "error" => result.val.s = <<"Error: ", fg.err>>
          /\ fg.last = "timeout" =>
                result.val.s = <<"Error: ", "Operation timed out after ", "90",
                                 " seconds">>
    /\ (QueryDone("execute_write_query") /\ Exhausted) =>
          /\ result.kind = "return" /\ result.val.ty = "dict"
          /\ \A i \in 1..Len(result.val.s) : result.val.s[i] # "Error: "

C18_Witness ==
    /\ QueryDone("create_table") /\ Exhausted
    /\ fg.last = "error" /\ fg.err = "boom"
    /\ result = Return(Val("message", <<"Error: ", "boom">>))

DataAccessOps == QueryOps \cup {"append_insight", "get_insights_memo"}

\* C19: a step in which any of the seven data-access methods is called while
\* self.session is None ends that call at once with the not-connected error:
\* no transport call, no retry, no sleep, and session, tool cache, mirror
\* and tasks stay as they were.
C19_NotConnectedFailsFast ==
    [][(fg.pc = "done" /\ session = "None" /\ fg'.op \in DataAccessOps) =>
          /\ result' = Raise(Val("RuntimeError", <<"Not connected to server">>))
          /\ fg'.pc = "done"
          /\ fg'.calls = 0 /\ fg'.retries = 0 /\ fg'.sleeps = 0
          /\ UNCHANGED <<session, tools_cache, insights, tasks, submitted,
                         remoteOk, listToolsCalls>>]_vars

C19_Witness ==
    /\ session = "None" /\ connects = 1
    /\ fg.op = "append_insight" /\ fg.insight = <<"a">> /\ fg.pc = "done"
    /\ result = Raise(NotConnectedError)
    /\ insights = <<>> /\ tasks = <<>>

\* C20: before any operation has been invoked on it, a client has no
\* session, no tool cache and an empty mirror.
C20_FreshClient ==
    fg.op = "none" =>
        /\ session = "None"
        /\ tools_cache = "None"
        /\ insights = <<>>
        /\ tasks = <<>>

C20_Witness ==
    /\ fg.op = "none" /\ connects = 0
    /\ session = "None" /\ tools_cache = "None" /\ insights = <<>>

HelperDone(op) == fg.op = op /\ fg.pc = "done"

\* C21: validate_query returns (True, None) exactly when the query is
\* non-blank, matches none of the dangerous patterns, has one of the five
\* supported types and contains that type's required clause; in every other
\* case it returns (False, message) with a message that is not None.
C21_ValidExactly ==
    HelperDone("validate_query") =>
        LET q == fg.arg
            t == get_query_type(q)
            good ==
                /\ \E i \in 1..Len(q) : ~IsNewline(q[i])
                /\ \A n \in 1..Len(dangerous_patterns) : ~Search(dangerous_patterns[n], q)
                /\ t \in {"SELECT", "INSERT", "UPDATE", "DELETE", "CREATE"}
                /\ Search(ClausePattern(t), q)
        IN /\ result.kind = "return"
           /\ result.val.ty = "tuple"
           /\ good <=> result.val.s = <<"True", "None">>
           /\ ~good =>
                 /\ Head(result.val.s) = "False"
                 /\ Len(result.val.s) >= 2
                 /\ Tail(result.val.s) # PyNone

C21_Witness ==
    /\ HelperDone("validate_query")
    /\ fg.arg = <<"CREATE", "TABLE", "t", "(">>
    /\ result = Return(Pair("True", PyNone))

\* C22: analyze_query_results never returns an empty list: for empty
\* results it returns the single 'no data' insight, and for any non-empty
\* results it returns a list that starts with the row-count insight,
\* whatever branch the query text selects.
C22_NeverEmpty ==
    HelperDone("analyze_query_results") =>
        LET rows == fg.arg.results.rows
        IN /\ result.kind = "return"
           /\ result.val.ty = "list"
           /\ result.val.s # <<>>
           /\ rows = <<>> => result.val.s = << <<"No data available for analysis.">> >>
           /\ rows # <<>> =>
                 Head(result.val.s) = <<"Query returned ", ToStr(Len(rows)), " rows of data.">>

\* `s in text`
Contains(text, s) ==
    \E i \in 0..(Len(text) - Len(s)) : SubSeq(text, i + 1, i + Len(s)) = s

\* C23 as stated: for every non-empty list of rows the text contains every
\* column name of the first row and every cell of every row in full.
C23_Original ==
    (HelperDone("format_query_results") /\ fg.arg.results.rows # <<>>) =>
        LET columns == fg.arg.results.columns
            rows == fg.arg.results.rows
        IN /\ \A c \in 1..Len(columns) : Contains(result.val.s, columns[c])
           /\ \A r \in 1..Len(rows), c \in 1..Len(columns) :
                 Contains(result.val.s, rows[r][c])

\* C23: for every non-empty list of rows the text contains every column
\* name in full; it contains every cell in full when the columns fit into
\* max_width, and otherwise the first max(10, int(width * max_width / total))
\* characters of every cell, width being the column's widest text and
\* total the sum of the widths plus 3 per column minus 1.
C23_ContainsNamesAndCutCells ==
    (HelperDone("format_query_results") /\ fg.arg.results.rows # <<>>) =>
        LET columns == fg.arg.results.columns
            rows == fg.arg.results.rows
            max_width == fg.arg.max_width
            lens(c) == {Len(columns[c])} \cup {Len(rows[r][c]) : r \in 1..Len(rows)}
            width == [c \in 1..Len(columns) |->
                        CHOOSE w \in lens(c) : \A v \in lens(c) : v <= w]
            total == SumSeq(width) + SEPARATOR_WIDTH * Len(columns) - 1
            shown(c) == IF total <= max_width THEN width[c]
                        ELSE Max(MIN_COL_WIDTH, (width[c] * max_width) \div total)
        IN /\ result.kind = "return"
           /\ \A c \in 1..Len(columns) : Contains(result.val.s, columns[c])
           /\ \A r \in 1..Len(rows), c \in 1..Len(columns) :
                 Contains(result.val.s, Cut(rows[r][c], shown(c)))
           /\ total <= max_width =>
                 \A r \in 1..Len(rows), c \in 1..Len(columns) :
                     Contains(result.val.s, rows[r][c])

C23_Witness ==
    /\ HelperDone("format_query_results")
    /\ fg.arg.max_width = NARROW_MAX_WIDTH
    /\ fg.arg.results.columns = << <<"i", "d">> >>
    /\ fg.arg.results.rows = << <<LongCell>> >>
    /\ Contains(result.val.s, Cut(LongCell, MIN_COL_WIDTH))
    /\ ~Contains(result.val.s, LongCell)

\* every mirror the bounds allow
Mirrors ==
    UNION { [1..n -> InsightTexts] : n \in 0..MaxInsights }

\* C24: the memo is never a merge of remote and local content: when the
\* remote read succeeds the result is the one the remote response gives for
\* every content of the mirror; only when the read fails is it the local memo.
C24_NoMerge ==
    (MemoDone /\ session # "None") =>
        LET o == [kind |-> fg.last, resp |-> fg.resp, err |-> fg.err]
        IN /\ fg.last = "ok" =>
                 /\ \A ins \in Mirrors : MemoResult(o, ins) = result
                 /\ result = Return(Val("str", RemoteMemoText(fg.resp)))
           /\ fg.last # "ok" =>
                 /\ result = Return(Val("str", LocalMemo(insights)))
                 /\ \A r \in Responses :
                       MemoResult([o EXCEPT !.resp = r], insights) = result

C24_Witness ==
    /\ MemoDone /\ fg.last = "ok"
    /\ fg.resp = [shape |-> "direct_text", text |-> "OK"]
    /\ Len(insights) = 2
    /\ result = Return(Val("str", <<"OK">>))

IsPrefix(a, b) == Len(a) <= Len(b) /\ SubSeq(b, 1, Len(a)) = a

\* C25: the mirror is append-only: every step leaves the mirror as a prefix
\* of the mirror after it, and the only step that changes it is the call of
\* append_insight, which adds that call's text at the end.
C25_AppendOnly ==
    [][/\ IsPrefix(insights, insights')
       /\ insights' # insights =>
             /\ fg.pc = "done"
             /\ fg'.op = "append_insight"
             /\ insights' = Append(insights, fg'.insight)]_vars

C25_Witness ==
    /\ Len(insights) = 2
    /\ \E i \in 1..Len(tasks) : tasks[i].st = "done"
    /\ MemoDone /\ fg.last = "error"
    /\ connects = 2

\* C26: the mirror holds the texts in the order in which append_insight was
\* invoked, also while several background calls are outstanding and end in
\* another order.
C26_MirrorInCallOrder ==
    insights = submitted

C26_Witness ==
    /\ Len(tasks) = 2
    /\ tasks[1].st = "calling" /\ tasks[2].st = "done"
    /\ tasks[1].insight # tasks[2].insight
    /\ insights = <<tasks[1].insight, tasks[2].insight>>
    /\ insights = submitted

\* an invocation of call_tool_with_retry on a client that has a session
Invoking == fg.op = "call_tool_with_retry" /\ session # "None"

\* C27: a timeout is retried exactly like a transport error: at every point
\* of an invocation the numbers of calls and sleeps are given by the number
\* of failed attempts alone, whatever mix of timeouts and errors they were,
\* and the invocation gives up only after max_retries + 1 failures.
C27_TimeoutRetriedLikeError ==
    Invoking =>
        /\ fg.pc = "await_call" => (fg.calls = fg.fails + 1 /\ fg.sleeps = fg.fails)
        /\ fg.pc = "sleeping" =>
              /\ fg.calls = fg.fails /\ fg.sleeps = fg.fails - 1
              /\ fg.fails <= fg.max_retries
        /\ (fg.pc = "done" /\ fg.last = "ok") =>
              (fg.calls = fg.fails + 1 /\ fg.sleeps = fg.fails)
        /\ (fg.pc = "done" /\ fg.last # "ok") =>
              /\ fg.fails = fg.max_retries + 1
              /\ fg.calls = fg.fails /\ fg.sleeps = fg.fails - 1
              /\ result.kind = "raise"

C27_Witness ==
    /\ Invoking /\ fg.pc = "done" /\ fg.max_retries = 2
    /\ fg.fails = 2 /\ fg.timeouts = 1 /\ fg.last = "ok"
    /\ fg.calls = 3 /\ fg.sleeps = 2

\* attempts made so far by a finished invocation
Attempts == fg.fails + (IF fg.last = "ok" THEN 1 ELSE 0)

\* C28: a sleep follows every failed attempt except the final one and never
\* a success: a failed attempt with retries left goes to sleep, any other
\* ends the invocation; an invocation of a attempts has slept a - 1 times,
\* max_retries times on exhaustion, so its calls and sleeps never add up to
\* more than (max_retries + 1) timeouts plus max_retries delays.
C28_SleepsBetweenAttempts ==
    /\ [](fg.op = "call_tool_with_retry" =>
            /\ fg.pc = "done" => fg.sleeps = Attempts - 1
            /\ (fg.pc = "done" /\ fg.last # "ok") => fg.sleeps = fg.max_retries
            /\ fg.calls * fg.timeout + fg.sleeps * RETRY_DELAY
                  <= (fg.max_retries + 1) * fg.timeout + fg.max_retries * RETRY_DELAY)
    /\ [][(fg.op = "call_tool_with_retry" /\ fg.pc = "await_call") =>
            /\ fg'.sleeps = fg.sleeps
            /\ fg'.pc = "sleeping" <=>
                  (fg'.last # "ok" /\ fg'.fails <= fg.max_retries)
            /\ fg'.pc = "done" <=>
                  (fg'.last = "ok" \/ fg'.fails = fg.max_retries + 1)]_vars

C28_Witness ==
    /\ RetryDone /\ session = "live" /\ fg.max_retries = 2
    /\ fg.last = "timeout" /\ fg.timeouts = 3
    /\ fg.calls = 3 /\ fg.sleeps = 2

\* C29: call_tool_with_retry uses one timeout for the whole invocation, 60
\* for append_insight and the default otherwise, and every attempt that
\* times out reports that timeout.
C29_TimeoutPerTool ==
    Invoking =>
        LET expected == IF fg.tool = "append_insight"
                        THEN APPEND_INSIGHT_TIMEOUT ELSE TIMEOUT_SECONDS
        IN /\ fg.timeout = expected
           /\ fg.last = "timeout" =>
                 fg.last_error =
                     Val("TimeoutError",
                         <<"Operation timed out after ", ToStr(expected), " seconds">>)

C29_Witness ==
    /\ Invoking /\ fg.pc = "sleeping" /\ fg.tool = "append_insight"
    /\ fg.fails = 2 /\ fg.timeouts = 1 /\ fg.last = "timeout"
    /\ fg.timeout = APPEND_INSIGHT_TIMEOUT

\* C30: parse_response takes the text to parse by precedence (first
\* element's text, content's text, the response when it is text, else the
\* response's string rendering), so that the value handed to the parsers,
\* and returned when neither parser accepts it, is always a string.
C30_AlwaysParsesString ==
    (RetryDone /\ fg.last = "ok") =>
        LET c == ExtractContent(fg.resp)
        IN /\ fg.resp.shape \in TextShapes => (c.str /\ c.s = fg.resp.text)
           /\ c.str
           /\ (~JsonLoads(c).ok /\ ~LiteralEval(c).ok /\ result.val.ty # "None")
                 => result.val.ty = "str"

\* C31: on the extracted text parse_response returns the JSON value when the
\* JSON parse succeeds, the literal value only when the JSON parse fails
\* and the literal parse succeeds, and the text itself only when both fail.
C31_JsonThenLiteral ==
    (RetryDone /\ fg.last = "ok" /\ fg.resp.shape \in TextShapes) =>
        LET c == [str |-> TRUE, s |-> fg.resp.text]
            j == JsonLoads(c)
            l == LiteralEval(c)
        IN /\ j.ok => result = Return(Val("parsed", <<j.v>>))
           /\ (~j.ok /\ l.ok) => result = Return(Val("parsed", <<l.v>>))
           /\ result = Return(Val("str", <<fg.resp.text>>)) => (~j.ok /\ ~l.ok)

C31_Witness ==
    /\ RetryDone /\ fg.last = "ok"
    /\ fg.resp = [shape |-> "list_text", text |-> "'x'"]
    /\ result = Return(Val("parsed", <<"str:x">>))

\* C32: when parse_response yields None for the response of a successful
\* call, call_tool_with_retry and the methods built on it treat the call as
\* failed: the invoker raises and each method gives its failure result.
C32_NoneIsFailure ==
    (fg.op \in InvokerOps /\ fg.pc = "done" /\ fg.last = "ok"
       /\ parse_response(fg.resp) = Val("None", <<>>)) =>
        /\ fg.op = "call_tool_with_retry" => result.kind = "raise"
        /\ fg.op \in {"execute_read_query", "describe_table", "list_tables"}
              => result = Return(EmptyList)
        /\ fg.op = "execute_write_query" => result = Return(AffectedZero)
        /\ fg.op = "create_table" =>
              (result.kind = "return" /\ Head(result.val.s) = "Error: ")

\* a step of a background task: some task changes, none is created
TaskStep == Len(tasks') = Len(tasks) /\ tasks' # tasks

\* C33: a background task only logs: each of its steps, whether its call is
\* issued, succeeds, errors or times out, leaves the session, the tool
\* cache, the mirror, the caller's operation in flight and the caller's
\* result as they were.
C33_TaskOnlyLogs ==
    [][TaskStep => UNCHANGED <<session, tools_cache, insights, fg, result,
                               submitted, connects, listToolsCalls>>]_vars

C33_Witness ==
    /\ fg.op = "get_insights_memo" /\ fg.pc = "await_read"
    /\ result.kind = "none"
    /\ Len(tasks) = 2 /\ tasks[1].st = "done" /\ tasks[2].st = "done"
    /\ ~remoteOk
    /\ Len(insights) = 2

\* C34: every background task of a non-blocking append_insight ends: once
\* created it is eventually done, whatever the transport does, and no step
\* takes a task away or puts a finished one back.
C34_TasksTerminate ==
    /\ \A i \in 1..MaxInsights :
          (Len(tasks) >= i) ~> (Len(tasks) >= i /\ tasks[i].st = "done")
    /\ [][/\ Len(tasks') >= Len(tasks)
          /\ \A i \in 1..Len(tasks) :
                /\ tasks'[i].insight = tasks[i].insight
                /\ tasks[i].st = "done" => tasks'[i].st = "done"]_vars

C34_Witness ==
    /\ Len(tasks) = 2
    /\ tasks[1].st = "done" /\ tasks[2].st = "done"
    /\ session = "closed"
    /\ ~remoteOk
    /\ fg.op = "connect"

\* C40: a transport that never answers cannot hold the caller: on a
\* connected client a blocking append_insight that waits for its call
\* eventually returns the soft-timeout message, and a get_insights_memo that
\* waits for its read eventually returns the local memo.
C40_CallerNotBlocked ==
    /\ (fg.op = "append_insight" /\ fg.pc = "await_call")
          ~> (/\ fg.op = "append_insight" /\ fg.pc = "done"
              /\ result = Return(Val("message",
                     <<"Insight submission timed out, but may have succeeded">>)))
    /\ (fg.op = "get_insights_memo" /\ fg.pc = "await_read")
          ~> (/\ fg.op = "get_insights_memo" /\ fg.pc = "done"
              /\ result = Return(Val("str", LocalMemo(insights))))

C40_Witness ==
    /\ MemoDone /\ fg.last = "timeout" /\ fg.timeout = DIRECT_TIMEOUT
    /\ insights = <<<<"a">>, <<"b">>>>
    /\ tasks = <<>>
    /\ result = Return(Val("str", LocalMemo(insights)))

\* C35 (as stated): list_tools is asked of the transport at most once in the
\* life of a client, whatever number of connect_to_server calls it gets.
C35_Original == listToolsCalls <= 1

\* C35 (amended): list_tools is asked only by connect_to_server, at its
\* tool-caching step and at most once per connect_to_server call; tools_cache
\* is assigned only by that step, and no other operation asks for the tool
\* list or changes the cache.
C35_OncePerConnect ==
    /\ [](listToolsCalls <= connects)
    /\ [][(listToolsCalls' # listToolsCalls \/ tools_cache' # tools_cache) =>
              /\ fg.op = "connect" /\ fg.pc = "list_tools"
              /\ listToolsCalls' = listToolsCalls + 1
              /\ tools_cache' \in {tools_cache, "cached"}]_vars

C35_Witness ==
    /\ connects = 2 /\ listToolsCalls = 2
    /\ tools_cache = "cached"
    /\ fg.op \in QueryOps /\ fg.pc = "done" /\ result.kind = "return"

\* C36: call_tool_with_retry ends in one of two ways and no other: its last
\* attempt succeeded and it returns the normalization of that attempt's
\* response, or all max_retries + 1 attempts failed and it raises the error
\* of the last of them.
C36_ReturnsOrRaisesLast ==
    RetryDone =>
        \/ /\ fg.last = "ok"
           /\ fg.fails <= fg.max_retries
           /\ result = Return(parse_response(fg.resp))
        \/ /\ fg.last \in {"timeout", "error"}
           /\ fg.fails = fg.max_retries + 1
           /\ result = Raise(IF fg.last = "timeout"
                             THEN TimeoutError(fg.timeout)
                             ELSE TransportError(fg.err))
        \/ /\ fg.last = "noattr"
           /\ fg.fails = fg.max_retries + 1
           /\ result = Raise(AttributeError)

C36_Witness ==
    /\ RetryDone /\ fg.max_retries = 1
    /\ fg.fails = 2 /\ fg.timeouts = 1
    /\ fg.last = "error" /\ fg.err = "reset"
    /\ result = Raise(TransportError("reset"))

\* the step in which a connected client accepts an append_insight invocation
Accepted == Len(submitted') = Len(submitted) + 1

\* C37: the mirror has one record per append_insight invocation accepted by
\* a connected client: the accepting step adds the invocation's text once,
\* and no other step (the reply of the blocking call, a rejected invocation,
\* a step of a background task) changes the mirror.
C37_OneRecordPerAppend ==
    /\ [](Len(insights) = Len(submitted))
    /\ [][IF Accepted
          THEN /\ session # "None"
               /\ fg.pc = "done" /\ fg'.op = "append_insight"
               /\ insights' = Append(insights, fg'.insight)
          ELSE insights' = insights]_vars

C37_Witness ==
    /\ BlockingAppendDone /\ fg.last = "ok"
    /\ Len(tasks) = 1 /\ tasks[1].st = "done"
    /\ remoteOk
    /\ Len(insights) = 2 /\ Len(submitted) = 2
    /\ insights[1] = insights[2]

\* C38: a background task makes at most one remote call for its insight,
\* under the 5 second timeout of its own, and is over once that call has
\* come back, failed or timed out: it is never scheduled or called again.
C38_TaskSingleAttempt ==
    /\ [](\A i \in 1..Len(tasks) :
            /\ tasks[i].calls <= 1
            /\ tasks[i].st = "scheduled" <=> tasks[i].calls = 0
            /\ tasks[i].calls = 1 => tasks[i].timeout = 5)
    /\ [][\A i \in 1..Len(tasks) :
            /\ tasks[i].st = "calling" =>
                  tasks'[i] \in {tasks[i], [tasks[i] EXCEPT !.st = "done"]}
            /\ tasks[i].st = "done" => tasks'[i] = tasks[i]]_vars

C38_Witness ==
    /\ Len(tasks) = 2
    /\ tasks[1].st = "done" /\ tasks[1].calls = 1
    /\ tasks[2].st = "calling" /\ tasks[2].calls = 1
    /\ ~remoteOk /\ session = "live"
    /\ fg.op = "append_insight" /\ ~fg.blocking

\* connect_to_server has raised
ConnectFailed == fg.op = "connect" /\ fg.pc = "done" /\ result.kind = "raise"

\* C39: a connect_to_server that fails, at whatever step, leaves the client
\* without a session, and the data-access call made after it fails at once
\* with the not-connected error.
C39_FailedConnectNotConnected ==
    /\ [](ConnectFailed => session = "None")
    /\ [][(ConnectFailed /\ fg'.op \in DataAccessOps) =>
              fg'.pc = "done" /\ result' = Raise(NotConnectedError)]_vars

====
